---- MODULE Spec2Model ----
\* A model of the paste service: the database-backed PasteService
\* (src/api/paste/sqldb/sqldb.go) and the HTTP handlers that call it
\* (src/api/http/http.go).
\*
\* Scaling.  Go's int and time.Duration are 64 bits wide; the model keeps
\* their two's-complement wrap-around at IntBits bits.  An instant is a number
\* of ticks of 30 seconds since 0001-01-01 00:00 (the zero time.Time), so that
\* time.Minute is 2 ticks and a multiplication by it can overflow the word the
\* way the multiplication by 60e9 nanoseconds does in the code.
EXTENDS Integers, Sequences, FiniteSets, TLC

\* ---------------------------------------------------------------- bounds

NumIds == 1          \* size of the id space rand.Int63() draws from
NumReaders == 2      \* concurrent GET /paste/{id} requests
NumCreators == 2     \* concurrent Create calls
MaxTicks == 1        \* how many times the clock advances
MaxExprLen == 4      \* longest expiration expression of SpecExpires
IntBits == 8         \* width of int / time.Duration in the model

NumOwnedIds == 2     \* size of the id space of SpecList and SpecDelete
NumOwners == 2       \* registered users that own pastes

Ids == 0 .. (NumIds - 1)
OwnedIds == 0 .. (NumOwnedIds - 1)
Owners == 1 .. NumOwners

MaxDeleteCalls == 3  \* Delete calls by clients of the service
NumRegistrars == 2   \* concurrent user registrations
Registrars == 1 .. NumRegistrars
UserIds == 1 .. NumRegistrars
Readers == 1 .. NumReaders
Creators == 1 .. NumCreators

\* ------------------------------------------------- machine integers, time

MaxInt == 2^(IntBits - 1) - 1
MinInt == 0 - 2^(IntBits - 1)

\* Two's-complement wrap-around of an int / int64 result.
WrapInt(x) == ((x + 2^(IntBits - 1)) % 2^IntBits) - 2^(IntBits - 1)

Minute == 2                  \* time.Minute, in ticks
Hour == 60 * Minute          \* time.Hour
TicksPerDay == 24 * Hour

ZeroTime == 0                \* time.Time{}: "no expiration"

\* The instant the clock shows in the initial state: 0401-01-31 12:00, and the
\* amount one clock step advances it by.
StartYear == 401
ClockStep == 2 * Minute

IsLeap(y) == (y % 4 = 0) /\ ((y % 100 # 0) \/ (y % 400 = 0))

DaysBeforeYear(y) ==
    365 * (y - 1) + ((y - 1) \div 4) - ((y - 1) \div 100) + ((y - 1) \div 400)

DaysIn(m, y) ==
    IF m = 2 THEN (IF IsLeap(y) THEN 29 ELSE 28)
    ELSE IF m \in {4, 6, 9, 11} THEN 30 ELSE 31

RECURSIVE DaysBeforeMonth(_, _)
DaysBeforeMonth(m, y) ==
    IF m <= 1 THEN 0 ELSE DaysBeforeMonth(m - 1, y) + DaysIn(m - 1, y)

\* time.Date: months outside 1..12 carry into the year, days outside the
\* month carry into the following (or preceding) months.
Date(year, month, day, tod) ==
    LET m0 == month - 1
        y == year + (m0 \div 12)
        m == (m0 % 12) + 1
    IN (DaysBeforeYear(y) + DaysBeforeMonth(m, y) + (day - 1)) * TicksPerDay + tod

\* The civil date of an instant (Time.Date and Time.Clock).
Civil(t) ==
    LET n == t \div TicksPerDay
        y == CHOOSE yy \in ((n \div 366) + 1) .. ((n \div 365) + 1) :
                 DaysBeforeYear(yy) <= n /\ n < DaysBeforeYear(yy + 1)
        d == n - DaysBeforeYear(y)
        m == CHOOSE mm \in 1 .. 12 :
                 DaysBeforeMonth(mm, y) <= d /\ d < DaysBeforeMonth(mm, y) + DaysIn(mm, y)
    IN [year |-> y, month |-> m, day |-> d - DaysBeforeMonth(m, y) + 1,
        tod |-> t % TicksPerDay]

\* Time.AddDate(years, months, days)
AddDate(t, years, months, days) ==
    LET c == Civil(t)
    IN Date(c.year + years, c.month + months, c.day + days, c.tod)

\* Time.Add(d)
AddDuration(t, d) == t + d

StartTime == Date(StartYear, 1, 31, 12 * Hour)

\* ------------------------------------------- expiration expressions, Atoi

\* A string is a sequence of one-character strings.
NeverExpr == <<"n", "e", "v", "e", "r">>

DigitSeq == <<"0", "1", "2", "3", "4", "5", "6", "7", "8", "9">>
DigitChars == {DigitSeq[i] : i \in 1 .. 10}
DigitVal(c) == (CHOOSE i \in 1 .. 10 : DigitSeq[i] = c) - 1

RECURSIVE DecimalValue(_)
DecimalValue(s) ==
    IF Len(s) = 0 THEN 0
    ELSE 10 * DecimalValue(SubSeq(s, 1, Len(s) - 1)) + DigitVal(s[Len(s)])

\* strconv.Atoi: an optional sign, then one or more decimal digits; a syntax
\* error for anything else and a range error for a value outside int.
Atoi(s) ==
    LET signed == Len(s) > 0 /\ s[1] \in {"-", "+"}
        digits == IF signed THEN SubSeq(s, 2, Len(s)) ELSE s
    IN IF Len(digits) = 0 \/ \E i \in 1 .. Len(digits) : digits[i] \notin DigitChars
       THEN [err |-> "syntax", val |-> 0]
       ELSE LET mag == DecimalValue(digits)
                v == IF signed /\ s[1] = "-" THEN 0 - mag ELSE mag
            IN IF v < MinInt \/ v > MaxInt
               THEN [err |-> "range", val |-> 0]
               ELSE [err |-> "none", val |-> v]

\* The expiration Create computes from p.Expires and the creation instant:
\* the error it returns with, or the instant it stores.
ExpiresOf(expr, created) ==
    IF expr # NeverExpr /\ Len(expr) > 1
    THEN LET a == Atoi(SubSeq(expr, 1, Len(expr) - 1))
             unit == expr[Len(expr)]
             dur == a.val
         IN IF a.err # "none"
            THEN [err |-> "wrong duration format", expires |-> ZeroTime]
            ELSE IF unit = "m"
            THEN [err |-> "none", expires |-> AddDuration(created, WrapInt(dur * Minute))]
            ELSE IF unit = "h"
            THEN [err |-> "none", expires |-> AddDuration(created, WrapInt(dur * Hour))]
            ELSE IF unit = "d"
            THEN [err |-> "none", expires |-> AddDate(created, 0, 0, dur)]
            ELSE IF unit = "w"
            THEN [err |-> "none", expires |-> AddDate(created, 0, 0, WrapInt(dur * 7))]
            ELSE IF unit = "M"
            THEN [err |-> "none", expires |-> AddDate(created, 0, dur, 0)]
            ELSE IF unit = "y"
            THEN [err |-> "none", expires |-> AddDate(created, dur, 0, 0)]
            ELSE [err |-> "unknown duration format", expires |-> ZeroTime]
    ELSE [err |-> "none", expires |-> ZeroTime]

\* ---------------------------------------------------- base-62 identifiers

\* The 62 symbols: digits, lowercase, uppercase.
Base62Alphabet ==
    <<"0", "1", "2", "3", "4", "5", "6", "7", "8", "9",
      "a", "b", "c", "d", "e", "f", "g", "h", "i", "j", "k", "l", "m",
      "n", "o", "p", "q", "r", "s", "t", "u", "v", "w", "x", "y", "z",
      "A", "B", "C", "D", "E", "F", "G", "H", "I", "J", "K", "L", "M",
      "N", "O", "P", "Q", "R", "S", "T", "U", "V", "W", "X", "Y", "Z">>
Base62Chars == {Base62Alphabet[i] : i \in 1 .. Len(Base62Alphabet)}
Base62Val(c) == (CHOOSE i \in 1 .. Len(Base62Alphabet) : Base62Alphabet[i] = c) - 1

RECURSIVE Base62Value(_)
Base62Value(s) ==
    IF Len(s) = 0 THEN 0
    ELSE Len(Base62Alphabet) * Base62Value(SubSeq(s, 1, Len(s) - 1))
         + Base62Val(s[Len(s)])

\* base62.Decode: the id a string denotes; an error on a character outside
\* the alphabet and on a value beyond the id range.
Decode(s) ==
    IF \E i \in 1 .. Len(s) : s[i] \notin Base62Chars
    THEN [err |-> "invalid identifier", val |-> 0]
    ELSE IF Base62Value(s) > MaxInt
    THEN [err |-> "invalid identifier", val |-> 0]
    ELSE [err |-> "none", val |-> Base62Value(s)]

\* ------------------------------------------------------- pastes, store

\* bcrypt.GenerateFromPassword draws a fresh salt; the hash carries it.  The
\* hash of the model is the pair of the two, so that CompareHashAndPassword
\* is decided by the plaintext the hash was made from.
MaxSalt == 1
Salts == 1 .. MaxSalt
NoHash == [pw |-> "", salt |-> 0]
Hash(pw, salt) == [pw |-> pw, salt |-> salt]

\* The row gorm writes for a paste: Omit("user_id") leaves the column NULL,
\* written <<>>; a set owner is <<uid>>.
RowOf(paste, omitUser) ==
    [id |-> paste.id, body |-> paste.body, expires |-> paste.expires,
     deleteAfterRead |-> paste.deleteAfterRead, password |-> paste.password,
     created |-> paste.created,
     user_id |-> IF omitUser THEN <<>> ELSE <<paste.userID>>]

\* The api.Paste gorm scans from a row (a NULL user_id scans as 0).
PasteOf(row) ==
    [id |-> row.id, body |-> row.body, expires |-> row.expires,
     deleteAfterRead |-> row.deleteAfterRead, password |-> row.password,
     created |-> row.created,
     userID |-> IF row.user_id = <<>> THEN 0 ELSE row.user_id[1]]

Put(st, id, row) == [i \in (DOMAIN st) \cup {id} |-> IF i = id THEN row ELSE st[i]]
Remove(st, id) == [i \in (DOMAIN st) \ {id} |-> st[i]]

\* PasteService.Get: (paste, err).  paste is <<>> for nil and <<p>> for &p.
Get(st, id, dbOk) ==
    IF ~dbOk THEN [paste |-> <<>>, err |-> "Get: database error"]
    ELSE IF id \notin DOMAIN st THEN [paste |-> <<>>, err |-> "none"]
    ELSE [paste |-> <<PasteOf(st[id])>>, err |-> "none"]

\* A Delete that reports success and leaves the row in place.
Delete_KeepsRow(st, id, dbOk) ==
    [store |-> st, err |-> IF dbOk THEN "none" ELSE "database error"]

\* A Delete that reports an error when it removed no row.
Delete_ErrorsOnAbsent(st, id, dbOk) ==
    IF ~dbOk THEN [store |-> st, err |-> "database error"]
    ELSE IF id \notin DOMAIN st THEN [store |-> st, err |-> "record not found"]
    ELSE [store |-> Remove(st, id), err |-> "none"]

\* PasteService.Delete: the store after db.Delete(&api.Paste{}, id) and the
\* error burnReads.  Deleting no row is not an error.
Delete(st, id, dbOk) ==
    IF ~dbOk THEN [store |-> st, err |-> "database error"]
    ELSE [store |-> Remove(st, id), err |-> "none"]

\* An insert that writes the row without its body.
Insert_Partial(st, paste, dbOk) ==
    IF ~dbOk THEN [store |-> st, err |-> "database error"]
    ELSE IF paste.id \in DOMAIN st
    THEN [store |-> st, err |-> "UNIQUE constraint failed: pastes.id"]
    ELSE [store |-> Put(st, paste.id, [RowOf(paste, paste.userID = 0) EXCEPT !.body = ""]),
          err |-> "none"]

\* An insert that overwrites the row of an id that is stored (a Save).
Insert_Upsert(st, paste, dbOk) ==
    IF ~dbOk THEN [store |-> st, err |-> "database error"]
    ELSE [store |-> Put(st, paste.id, RowOf(paste, paste.userID = 0)), err |-> "none"]

\* An insert that replaces the row of a stored id and reports the refusal.
Insert_ReplacesThenFails(st, paste, dbOk) ==
    IF ~dbOk THEN [store |-> st, err |-> "database error"]
    ELSE IF paste.id \in DOMAIN st
    THEN [store |-> Put(st, paste.id, RowOf(paste, paste.userID = 0)),
          err |-> "UNIQUE constraint failed: pastes.id"]
    ELSE [store |-> Put(st, paste.id, RowOf(paste, paste.userID = 0)), err |-> "none"]

\* db.Create(&newPaste): INSERT, refused when the primary key exists.
Insert(st, paste, dbOk) ==
    IF ~dbOk THEN [store |-> st, err |-> "database error"]
    ELSE IF paste.id \in DOMAIN st
    THEN [store |-> st, err |-> "UNIQUE constraint failed: pastes.id"]
    ELSE [store |-> Put(st, paste.id, RowOf(paste, paste.userID = 0)), err |-> "none"]

\* A List that answers every uid with the whole table.
List_AllRows(st, uid, dbOk) ==
    IF ~dbOk THEN {} ELSE {PasteOf(st[i]) : i \in DOMAIN st}

\* PasteService.List: the pastes db.Find scans, "user_id IS NULL" for uid 0
\* and "user_id=?" otherwise.  The error of Find is not looked at: a failing
\* query leaves the slice nil.
List(st, uid, dbOk) ==
    IF ~dbOk THEN {}
    ELSE IF uid = 0
    THEN {PasteOf(st[i]) : i \in {j \in DOMAIN st : st[j].user_id = <<>>}}
    ELSE {PasteOf(st[i]) : i \in {j \in DOMAIN st : st[j].user_id = <<uid>>}}

\* ----------------------------------------------------- users and tokens

\* A Find that looks at the username alone.
Find_IgnoresEmail(us, q) ==
    {us[i] : i \in {j \in DOMAIN us :
                       \/ q.username # "" /\ us[j].username = q.username
                       \/ q.id # 0 /\ us[j].id = q.id}}

\* A Find that returns a user of the store whatever it is asked for.
Find_AnyUser(us, q) == {us[i] : i \in DOMAIN us}

\* MockStore.Find: the users it may return, those that match the username,
\* the email or the id asked for; nil, the empty set, when none does.
Find(us, q) ==
    {us[i] : i \in {j \in DOMAIN us :
                       \/ q.username # "" /\ us[j].username = q.username
                       \/ q.email # "" /\ us[j].email = q.email
                       \/ q.id # 0 /\ us[j].id = q.id}}

\* MockStore.Store: s.users[usr.ID] = &usr
Store(us, usr) == Put(us, usr.id, usr)

ByUsername(name) == [username |-> name, email |-> "", id |-> 0]
ByEmail(email) == [username |-> "", email |-> email, id |-> 0]

\* CredentialGuard.Verify
Verify(pw, hash) == hash = NoHash \/ hash.pw = pw

\* UserService.Create: the error it returns for a form on a user store.
RegisterError(us, form) ==
    IF form.username = "" THEN "username is empty"
    ELSE IF form.email = "" THEN "email is empty"
    ELSE IF form.password # form.rePassword THEN "passwords don't match"
    ELSE IF Find(us, ByUsername(form.username)) # {} THEN "username exists"
    ELSE IF Find(us, ByEmail(form.email)) # {} THEN "email exists"
    ELSE "none"

\* The lifetime of a token, and the signature of a payload under a secret:
\* a value only the holder of the secret can compute.
TokenTTL == Minute
Sign(payload, secret) == [payload |-> payload, secret |-> secret]
Payload(token) == [uid |-> token.uid, username |-> token.username, exp |-> token.exp]

\* TokenService.Issue
Issue(user, secret, at) ==
    LET payload == [uid |-> user.id, username |-> user.username, exp |-> at + TokenTTL]
    IN payload @@ [sig |-> Sign(payload, secret)]

\* A Validate that does not look at the expiry.
Validate_NoExpiry(token, secret, at) ==
    IF token.sig # Sign(Payload(token), secret)
    THEN [claims |-> <<>>, err |-> "InvalidSignature"]
    ELSE [claims |-> <<[uid |-> token.uid, username |-> token.username]>>,
          err |-> "none"]

\* TokenService.Validate: (claims, err)
Validate(token, secret, at) ==
    IF token.sig # Sign(Payload(token), secret)
    THEN [claims |-> <<>>, err |-> "InvalidSignature"]
    ELSE IF at > token.exp
    THEN [claims |-> <<>>, err |-> "Expired"]
    ELSE [claims |-> <<[uid |-> token.uid, username |-> token.username]>>,
          err |-> "none"]

\* ------------------------------------------------------------------ state

VARIABLES
    store,      \* the pastes table: id -> row, for the ids present
    now,        \* time.Now()
    cpc,        \* Create call c: "idle", "insert" (before db.Create), "done"
    cform,      \* its argument p
    cres,       \* its newPaste while at "insert"; its result (paste, err) when done
    rpc,        \* GET request r: "idle", "burn" (before Delete), "done"
    req,        \* its request: the id parameter and the password it carries
    resp,       \* the response written to its client
    delResp,    \* the status of the last DELETE /paste/{id} response, 0 before
    burnt,      \* history: ids whose row a burn removed and no Create refilled
    burnReads,  \* history: per id, the reads that burnReads the burn-after-read
                \* paste last stored under it
    listRes,    \* the last List call: its argument, its result, the table it ran on
    delLog,     \* the last two Delete calls made by a client of the service
    creq,       \* the POST /paste request of Create call c, unsent when the
                \* call is made by a client of the service
    users,      \* the user store: id -> user
    regRes,     \* registration r: "idle", "ok" or "failed", its form, its error
    authRes,    \* the last Authenticate call: its login, its secret, its result
    valRes      \* the last Validate call: its token, its secret, its result

authVars == <<users, regRes, authRes, valRes>>

vars == <<store, now, cpc, cform, cres, rpc, req, resp, delResp, burnt, burnReads,
          listRes, delLog, creq, authVars>>

Passwords == {"", "a"}          \* passwords a paste is created with
ReqPasswords == {"", "a", "b"}  \* passwords a read supplies

NoForm == [body |-> "", expires |-> <<>>, deleteAfterRead |-> FALSE,
           password |-> "", userID |-> 0]
NoResult == [paste |-> <<>>, err |-> "none"]
NoRequest == [id |-> 0, pw |-> ""]
NoResponse == [status |-> 0, paste |-> <<>>, text |-> "", at |-> 0,
               afterBurn |-> FALSE, panicked |-> FALSE, deleteErr |-> "none"]

EmptyStore == [i \in {} |-> NoForm]
NoCreateRequest == [sent |-> FALSE, contentType |-> "", body |-> <<>>]
NoUser == [id |-> 0, username |-> "", email |-> "", hash |-> NoHash]
NoUsers == [i \in {} |-> NoUser]
NoRegForm == [username |-> "", email |-> "", password |-> "", rePassword |-> ""]
NoRegistration == [state |-> "idle", form |-> NoRegForm, err |-> "none",
                   taken |-> FALSE]
NoLogin == [username |-> "", password |-> ""]
NoAuth == [called |-> FALSE, login |-> NoLogin, secret |-> "", token |-> <<>>,
           err |-> "none", known |-> FALSE]
NoValidation == [called |-> FALSE, token |-> <<>>, secret |-> "", at |-> 0,
                 claims |-> <<>>, err |-> "none", issued |-> <<>>,
                 issuedWith |-> ""]
NoList == [called |-> FALSE, uid |-> 0, pastes |-> {}, err |-> "none",
           failed |-> FALSE, seen |-> EmptyStore]

Init ==
    /\ store = EmptyStore
    /\ now = StartTime
    /\ cpc = [c \in Creators |-> "idle"]
    /\ cform = [c \in Creators |-> NoForm]
    /\ cres = [c \in Creators |-> NoResult]
    /\ rpc = [r \in Readers |-> "idle"]
    /\ req = [r \in Readers |-> NoRequest]
    /\ resp = [r \in Readers |-> NoResponse]
    /\ delResp = 0
    /\ burnt = {}
    /\ burnReads = [i \in Ids \cup OwnedIds |-> 0]
    /\ listRes = NoList
    /\ delLog = <<>>
    /\ creq = [c \in Creators |-> NoCreateRequest]
    /\ users = NoUsers
    /\ regRes = [r \in Registrars |-> NoRegistration]
    /\ authRes = NoAuth
    /\ valRes = NoValidation

\* ----------------------------------------------------------------- Create

\* PasteService.Create up to the insert: the creation instant, the
\* expiration, the password hash, the random id, the new paste.
CreateBegin(c, form, id, salt, hashOk) ==
    /\ cpc[c] = "idle"
    /\ cform' = [cform EXCEPT ![c] = form]
    /\ LET created == now
           e == ExpiresOf(form.expires, created)
           newPaste == [id |-> id, body |-> form.body, expires |-> e.expires,
                        deleteAfterRead |-> form.deleteAfterRead,
                        password |-> IF form.password # ""
                                     THEN Hash(form.password, salt) ELSE NoHash,
                        created |-> created, userID |-> form.userID]
       IN IF e.err # "none"
          THEN /\ cpc' = [cpc EXCEPT ![c] = "done"]
               /\ cres' = [cres EXCEPT ![c] = [paste |-> <<>>, err |-> e.err]]
          ELSE IF form.password # "" /\ ~hashOk
          THEN /\ cpc' = [cpc EXCEPT ![c] = "done"]
               /\ cres' = [cres EXCEPT ![c] = [paste |-> <<>>, err |-> "bcrypt error"]]
          ELSE /\ cpc' = [cpc EXCEPT ![c] = "insert"]
               /\ cres' = [cres EXCEPT ![c] = [paste |-> <<newPaste>>, err |-> "none"]]
    /\ UNCHANGED <<store, now, rpc, req, resp, delResp, burnt, burnReads, listRes, delLog, creq, authVars>>

\* The insert and the return of Create.
CreateInsert(c, dbOk) ==
    /\ cpc[c] = "insert"
    /\ LET newPaste == cres[c].paste[1]
           ins == Insert(store, newPaste, dbOk)
       IN /\ store' = ins.store
          /\ cres' = [cres EXCEPT ![c] =
                         IF ins.err # "none" THEN [paste |-> <<>>, err |-> ins.err]
                         ELSE [paste |-> <<newPaste>>, err |-> "none"]]
          /\ burnt' = IF ins.err = "none" THEN burnt \ {newPaste.id} ELSE burnt
          /\ burnReads' = IF ins.err = "none"
                         THEN [burnReads EXCEPT ![newPaste.id] = 0] ELSE burnReads
    /\ cpc' = [cpc EXCEPT ![c] = "done"]
    /\ UNCHANGED <<now, cform, rpc, req, resp, delResp, listRes, delLog, creq, authVars>>

\* ------------------------------------------------------------ GET /paste

\* What the client of a request sees of its response.
Visible(rsp) == [status |-> rsp.status, paste |-> rsp.paste, text |-> rsp.text]

\* handlePaste up to and including c.JSON: the fetch, the 404 on an error,
\* the 200 with p.  p.DeleteAfterRead on a nil p panics after the 200 has
\* been written.
HandlePasteRead(r, id, pw, dbOk) ==
    /\ rpc[r] = "idle"
    /\ req' = [req EXCEPT ![r] = [id |-> id, pw |-> pw]]
    /\ LET g == Get(store, id, dbOk)
           hist == [at |-> now, afterBurn |-> id \in burnt, deleteErr |-> "none"]
       IN IF g.err # "none"
          THEN /\ resp' = [resp EXCEPT ![r] =
                     [status |-> 404, paste |-> <<>>, text |-> "paste not found",
                      panicked |-> FALSE] @@ hist]
               /\ rpc' = [rpc EXCEPT ![r] = "done"]
               /\ UNCHANGED burnReads
          ELSE IF g.paste = <<>>
          THEN /\ resp' = [resp EXCEPT ![r] =
                     [status |-> 200, paste |-> <<>>, text |-> "null",
                      panicked |-> TRUE] @@ hist]
               /\ rpc' = [rpc EXCEPT ![r] = "done"]
               /\ UNCHANGED burnReads
          ELSE /\ resp' = [resp EXCEPT ![r] =
                     [status |-> 200, paste |-> g.paste, text |-> "",
                      panicked |-> FALSE] @@ hist]
               /\ rpc' = [rpc EXCEPT ![r] =
                     IF g.paste[1].deleteAfterRead THEN "burn" ELSE "done"]
               /\ burnReads' = IF g.paste[1].deleteAfterRead
                               THEN [burnReads EXCEPT ![id] = @ + 1] ELSE burnReads
    /\ UNCHANGED <<store, now, cpc, cform, cres, delResp, burnt, listRes, delLog, creq, authVars>>

\* A burn whose failing Delete turns the response into a 500.
HandlePasteBurn_ErrorFailsRead(r, dbOk) ==
    /\ rpc[r] = "burn"
    /\ LET p == resp[r].paste[1]
           d == Delete(store, p.id, dbOk)
       IN /\ store' = d.store
          /\ resp' = [resp EXCEPT ![r] =
                IF d.err = "none" THEN [@ EXCEPT !.deleteErr = d.err]
                ELSE [@ EXCEPT !.deleteErr = d.err, !.status = 500, !.paste = <<>>,
                               !.text = "Internal Server Error"]]
          /\ burnt' = IF d.err = "none" THEN burnt \cup {p.id} ELSE burnt
    /\ rpc' = [rpc EXCEPT ![r] = "done"]
    /\ UNCHANGED <<now, cpc, cform, cres, req, delResp, burnReads, listRes, delLog, creq, authVars>>

\* handlePaste after c.JSON: the burn.  The error of Delete is dropped.
HandlePasteBurn(r, dbOk) ==
    /\ rpc[r] = "burn"
    /\ LET p == resp[r].paste[1]
           d == Delete(store, p.id, dbOk)
       IN /\ store' = d.store
          /\ resp' = [resp EXCEPT ![r].deleteErr = d.err]
          /\ burnt' = IF d.err = "none" THEN burnt \cup {p.id} ELSE burnt
    /\ rpc' = [rpc EXCEPT ![r] = "done"]
    /\ UNCHANGED <<now, cpc, cform, cres, req, delResp, burnReads, listRes, delLog, creq, authVars>>

\* The id of a request whose id parameter does not decode.
NoId == 0 - 1

\* handlePaste when base62.Decode fails: 404, nothing fetched.
HandlePasteInvalid(r, pw) ==
    /\ rpc[r] = "idle"
    /\ req' = [req EXCEPT ![r] = [id |-> NoId, pw |-> pw]]
    /\ resp' = [resp EXCEPT ![r] =
           [status |-> 404, paste |-> <<>>, text |-> "paste not found",
            panicked |-> FALSE, at |-> now, afterBurn |-> FALSE,
            deleteErr |-> "none"]]
    /\ rpc' = [rpc EXCEPT ![r] = "done"]
    /\ UNCHANGED <<store, now, cpc, cform, cres, delResp, burnt, burnReads, listRes, delLog, creq, authVars>>

\* handlePaste from the id parameter of the route: the decoding, then the
\* fetch and the response.
HandlePaste(r, param, pw, dbOk) ==
    LET d == Decode(param)
    IN IF d.err # "none" THEN HandlePasteInvalid(r, pw)
       ELSE HandlePasteRead(r, d.val, pw, dbOk)

\* --------------------------------------------------------- DELETE /paste

\* handleDelete: 404 when Delete returns an error, the default 200 otherwise.
HandleDelete(id, dbOk) ==
    /\ LET d == Delete(store, id, dbOk)
       IN /\ store' = d.store
          /\ delResp' = IF d.err # "none" THEN 404 ELSE 200
    /\ UNCHANGED <<now, cpc, cform, cres, rpc, req, resp, burnt, burnReads, listRes, delLog, creq, authVars>>

\* ------------------------------------------- calls of List and of Delete

\* A call of PasteService.List.  List has no error result.
ListCall(uid, dbOk) ==
    /\ listRes' = [called |-> TRUE, uid |-> uid, pastes |-> List(store, uid, dbOk),
                   err |-> "none", failed |-> ~dbOk, seen |-> store]
    /\ UNCHANGED <<store, now, cpc, cform, cres, rpc, req, resp, delResp, burnt,
                   burnReads, delLog, creq, authVars>>

\* The number of Delete calls clients have made.
DeleteCalls == IF delLog = <<>> THEN 0 ELSE delLog[Len(delLog)].seq

\* A call of PasteService.Delete by a client of the service.
DeleteCall(id, dbOk) ==
    /\ DeleteCalls < MaxDeleteCalls
    /\ LET d == Delete(store, id, dbOk)
           call == [seq |-> DeleteCalls + 1, id |-> id, err |-> d.err,
                    failed |-> ~dbOk, before |-> store, after |-> d.store]
       IN /\ store' = d.store
          /\ delLog' = IF Len(delLog) < 2 THEN Append(delLog, call)
                       ELSE <<delLog[2], call>>
    /\ UNCHANGED <<now, cpc, cform, cres, rpc, req, resp, delResp, burnt,
                   burnReads, listRes, creq, authVars>>

\* ---------------------------------------------------------- POST /paste

\* A request body as the JSON values it holds, each by how json.Decoder
\* takes it: an object of the fields of a paste, text that is no JSON, an
\* object cut short, a field of the wrong type, an object with a field the
\* paste does not have, a value that runs past the limit of MaxBytesReader.
JsonKinds == {"object", "syntax", "truncated", "badtype", "unknown", "huge"}
JsonValue(kind) == [kind |-> kind, body |-> "p", deleteAfterRead |-> FALSE]

ContentTypes == {"", "application/json", "text/plain"}

NoCreateResponse == [status |-> 0, text |-> "", paste |-> <<>>]

\* dec.Decode(&data): the error of decoding the first value of the body.
DecodeData(body) ==
    IF body = <<>> THEN "EOF"
    ELSE IF body[1].kind = "syntax" THEN "json: syntax error"
    ELSE IF body[1].kind = "truncated" THEN "unexpected EOF"
    ELSE IF body[1].kind = "badtype" THEN "json: cannot unmarshal"
    ELSE IF body[1].kind = "unknown" THEN "json: unknown field"
    ELSE IF body[1].kind = "huge" THEN "http: request body too large"
    ELSE "none"

\* dec.Decode(&struct{}{}): io.EOF when nothing follows the first value.
DecodeRest(body) ==
    IF Len(body) = 1 THEN "EOF"
    ELSE IF body[2].kind = "object" THEN "json: unknown field"
    ELSE DecodeData(Tail(body))

\* The response handleCreate writes before it calls Create, NoCreateResponse
\* when it goes on to the call.
CreateRejection(contentType, body) ==
    IF contentType # "" /\ contentType # "application/json"
    THEN [status |-> 415, paste |-> <<>>,
          text |-> "wrong Content-Type header, expect application/json"]
    ELSE IF DecodeData(body) # "none"
    THEN [status |-> 400, paste |-> <<>>,
          text |-> CASE DecodeData(body) = "json: syntax error"
                          -> "Request body contains malformed JSON"
                     [] DecodeData(body) = "unexpected EOF"
                          -> "Request body contains badly-formed JSON"
                     [] DecodeData(body) = "json: cannot unmarshal"
                          -> "Request body contains an invalid value"
                     [] DecodeData(body) = "json: unknown field"
                          -> "Request body contains unknown field"
                     [] DecodeData(body) = "EOF"
                          -> "Request body must not be empty"
                     [] DecodeData(body) = "http: request body too large"
                          -> "Request body must not be larger than 10KB"
                     [] OTHER -> "Internal Server Error"]
    ELSE IF DecodeRest(body) # "EOF"
    THEN [status |-> 400, paste |-> <<>>,
          text |-> "Request body must only contain a single JSON object"]
    ELSE NoCreateResponse

\* handleCreate up to the call of Create: the Content-Type, the two Decode
\* calls, the return after a 415 or a 400.
HandleCreateDecode(c, contentType, body) ==
    /\ cpc[c] = "idle"
    /\ ~creq[c].sent
    /\ creq' = [creq EXCEPT ![c] =
                   [sent |-> TRUE, contentType |-> contentType, body |-> body]]
    /\ cpc' = [cpc EXCEPT ![c] =
                  IF CreateRejection(contentType, body) # NoCreateResponse
                  THEN "done" ELSE "idle"]
    /\ UNCHANGED <<store, now, cform, cres, rpc, req, resp, delResp, burnt,
                   burnReads, listRes, delLog, authVars>>

\* handleCreate's call of Create with the paste it builds from data: no
\* expiration, no password, no owner.
HandleCreateCall(c, id) ==
    /\ creq[c].sent
    /\ CreateRejection(creq[c].contentType, creq[c].body) = NoCreateResponse
    /\ LET data == creq[c].body[1]
       IN CreateBegin(c, [body |-> data.body, expires |-> NeverExpr,
                          deleteAfterRead |-> data.deleteAfterRead,
                          password |-> "", userID |-> 0], id, 1, TRUE)

\* The response of handleCreate to request c: the rejection, the 400 after
\* an error of Create, the 201 with the paste; NoCreateResponse before.
CreateResponse(c) ==
    IF ~creq[c].sent THEN NoCreateResponse
    ELSE IF CreateRejection(creq[c].contentType, creq[c].body) # NoCreateResponse
    THEN CreateRejection(creq[c].contentType, creq[c].body)
    ELSE IF cpc[c] # "done" THEN NoCreateResponse
    ELSE IF cres[c].err # "none"
    THEN [status |-> 400, paste |-> <<>>, text |-> "failed to create paste"]
    ELSE [status |-> 201, paste |-> cres[c].paste, text |-> ""]

\* ------------------------------------------------------- users, tokens

pasteVars == <<store, now, cpc, cform, cres, rpc, req, resp, delResp, burnt,
               burnReads, listRes, delLog, creq>>

\* UserService.Create: the checks of the form, the look-ups by username and
\* by email and the Store of the new user, as one step on the user store.
Register(r, form, id, salt) ==
    /\ regRes[r].state = "idle"
    /\ id \notin DOMAIN users
    /\ LET err == RegisterError(users, form)
           usr == [id |-> id, username |-> form.username, email |-> form.email,
                   hash |-> Hash(form.password, salt)]
       IN /\ users' = IF err = "none" THEN Store(users, usr) ELSE users
          /\ regRes' = [regRes EXCEPT ![r] =
                [state |-> IF err = "none" THEN "ok" ELSE "failed",
                 form |-> form, err |-> err,
                 taken |-> \E i \in DOMAIN users :
                              \/ users[i].username = form.username
                              \/ users[i].email = form.email]]
    /\ UNCHANGED <<pasteVars, authRes, valRes>>

\* UserService.Authenticate: the user of that username, the comparison of
\* the password with its hash, the token issued for it.
Authenticate(login, secret) ==
    /\ LET found == Find(users, ByUsername(login.username))
           known == \E r \in Registrars :
                        /\ regRes[r].state = "ok"
                        /\ regRes[r].form.username = login.username
                        /\ regRes[r].form.password = login.password
           call == [called |-> TRUE, login |-> login, secret |-> secret,
                    known |-> known]
       IN IF found = {}
          THEN authRes' = call @@ [token |-> <<>>, err |-> "user not found"]
          ELSE \E u \in found :
                   IF ~Verify(login.password, u.hash)
                   THEN authRes' = call @@ [token |-> <<>>, err |-> "wrong password"]
                   ELSE authRes' = call @@ [token |-> <<Issue(u, secret, now)>>,
                                            err |-> "none"]
    /\ UNCHANGED <<pasteVars, users, regRes, valRes>>

\* The tokens a caller may present in place of the one it was issued: the
\* token itself and the token with one of its parts altered.
Presented(token) ==
    {token,
     [token EXCEPT !.uid = @ + 1],
     [token EXCEPT !.username = "x"],
     [token EXCEPT !.exp = @ + TokenTTL],
     [token EXCEPT !.sig = Sign(Payload(token), "x")]}

\* A call of UserService.Validate on a token derived from the last issued.
ValidateCall(token, secret) ==
    /\ authRes.token # <<>>
    /\ token \in Presented(authRes.token[1])
    /\ LET v == Validate(token, secret, now)
       IN valRes' = [called |-> TRUE, token |-> <<token>>, secret |-> secret,
                     at |-> now, claims |-> v.claims, err |-> v.err,
                     issued |-> authRes.token, issuedWith |-> authRes.secret]
    /\ UNCHANGED <<pasteVars, users, regRes, authRes>>

\* ------------------------------------------------------------------ clock

Tick ==
    /\ now < StartTime + MaxTicks * ClockStep
    /\ now' = now + ClockStep
    /\ UNCHANGED <<store, cpc, cform, cres, rpc, req, resp, delResp, burnt, burnReads, listRes, delLog, creq, authVars>>

\* --------------------------------------------------------- specifications

Form(body, expr, burn, pw, uid) ==
    [body |-> body, expires |-> expr, deleteAfterRead |-> burn,
     password |-> pw, userID |-> uid]

\* The lifecycle of burn-after-read pastes under concurrent requests: the
\* forms differ in DeleteAfterRead alone, reads carry no password, the clock
\* stands still.
BurnForms == {Form("p", NeverExpr, burn, "", 0) : burn \in BOOLEAN}

Create(c) ==
    /\ cpc[c] = "idle"
    /\ \E form \in BurnForms, id \in Ids : CreateBegin(c, form, id, 1, TRUE)

Next ==
    \/ \E c \in Creators : Create(c)
    \/ \E c \in Creators, dbOk \in BOOLEAN : CreateInsert(c, dbOk)
    \/ \E r \in Readers, id \in Ids, dbOk \in BOOLEAN : HandlePasteRead(r, id, "", dbOk)
    \/ \E r \in Readers, dbOk \in BOOLEAN : HandlePasteBurn(r, dbOk)

Spec == Init /\ [][Next]_vars

\* Access rules: pastes with a password or an expiration, reads that carry a
\* password, a clock that advances, explicit deletes.
AccessForms ==
    {Form("p", NeverExpr, FALSE, pw, 0) : pw \in Passwords}
    \cup {Form("p", expr, FALSE, "", 0) : expr \in {<<"1", "m">>, <<"0", "m">>}}

CreateAccess(c) ==
    /\ cpc[c] = "idle"
    /\ \E form \in AccessForms, id \in Ids, salt \in Salts, hashOk \in BOOLEAN :
           CreateBegin(c, form, id, salt, hashOk)

NextAccess ==
    \/ \E c \in Creators : CreateAccess(c)
    \/ \E c \in Creators : CreateInsert(c, TRUE)
    \/ \E r \in Readers, id \in Ids, pw \in ReqPasswords : HandlePasteRead(r, id, pw, TRUE)
    \/ \E id \in Ids, dbOk \in BOOLEAN : HandleDelete(id, dbOk)
    \/ Tick

SpecAccess == Init /\ [][NextAccess]_vars

\* The expiration computation on its own: one Create call per behaviour, its
\* expression drawn from every string over ExprChars up to MaxExprLen.
ExprChars == {"0", "1", "2", "-", "+", "m", "h", "d", "w", "M", "y", "x"}
AllExprs == {NeverExpr} \cup UNION {[1 .. n -> ExprChars] : n \in 0 .. MaxExprLen}

CreateExpr ==
    /\ cpc[1] = "idle"
    /\ \E expr \in AllExprs, id \in Ids :
        CreateBegin(1, Form("p", expr, FALSE, "", 0), id, 1, TRUE)

NextExpires ==
    \/ CreateExpr
    \/ \E dbOk \in BOOLEAN : CreateInsert(1, dbOk)
    \/ Tick

SpecExpires == Init /\ [][NextExpires]_vars

\* Fetches by the id parameter of the route: every string over ParamChars
\* up to MaxParamLen, which holds the id that is stored, ids that never are,
\* strings with a character outside the alphabet and strings that overflow.
MaxParamLen == 2
ParamChars == {"0", "2", "4", "Z", "-"}
Params == UNION {[1 .. n -> ParamChars] : n \in 1 .. MaxParamLen}

Fetch(r, dbOk) ==
    /\ rpc[r] = "idle"
    /\ \E param \in Params : HandlePaste(r, param, "", dbOk)

NextFetch ==
    \/ \E c \in Creators : Create(c)
    \/ \E c \in Creators : CreateInsert(c, TRUE)
    \/ \E r \in Readers, dbOk \in BOOLEAN : Fetch(r, dbOk)
    \/ \E r \in Readers : HandlePasteBurn(r, TRUE)

SpecFetch == Init /\ [][NextFetch]_vars

\* The table under creates by several owners and List calls: pastes of the
\* anonymous owner and of each registered one, over OwnedIds.
OwnedForms == {Form("p", NeverExpr, FALSE, "", uid) : uid \in {0} \cup Owners}

CreateOwned(c) ==
    /\ cpc[c] = "idle"
    /\ \E form \in OwnedForms, id \in OwnedIds : CreateBegin(c, form, id, 1, TRUE)

NextList ==
    \/ \E c \in Creators : CreateOwned(c)
    \/ \E c \in Creators : CreateInsert(c, TRUE)
    \/ \E uid \in {0} \cup Owners, dbOk \in BOOLEAN : ListCall(uid, dbOk)

SpecList == Init /\ [][NextList]_vars

\* The table under creates and Delete calls by clients of the service: one
\* form, stored under any id of OwnedIds.
CreatePlain(c) ==
    /\ cpc[c] = "idle"
    /\ \E id \in OwnedIds :
           CreateBegin(c, Form("p", NeverExpr, FALSE, "", 0), id, 1, TRUE)

NextDelete ==
    \/ \E c \in Creators : CreatePlain(c)
    \/ \E c \in Creators : CreateInsert(c, TRUE)
    \/ \E id \in OwnedIds, dbOk \in BOOLEAN : DeleteCall(id, dbOk)

SpecDelete == Init /\ [][NextDelete]_vars

\* Registration: every form over two usernames and two emails, the empty
\* ones, matching and non-matching passwords.
RegForms ==
    {[username |-> n, email |-> e, password |-> pw[1], rePassword |-> pw[2]] :
        n \in {"", "u", "v"}, e \in {"", "e", "f"},
        pw \in {<<"a", "a">>, <<"a", "b">>, <<"", "">>}}

RegisterAny(r) ==
    /\ regRes[r].state = "idle"
    /\ \E form \in RegForms, id \in UserIds, salt \in Salts :
           Register(r, form, id, salt)

NextRegister ==
    \/ \E r \in Registrars : RegisterAny(r)

SpecRegister == Init /\ [][NextRegister]_vars

\* Authentication: registrations of two users, logins with known and unknown
\* usernames and right and wrong passwords.
Secrets == {"s", "t"}
Logins == [username : {"", "u", "v", "w"}, password : {"", "a", "b"}]
AuthForms ==
    {[username |-> "u", email |-> "e", password |-> "a", rePassword |-> "a"],
     [username |-> "v", email |-> "f", password |-> "b", rePassword |-> "b"]}

RegisterUser(r) ==
    /\ regRes[r].state = "idle"
    /\ \E form \in AuthForms, id \in UserIds : Register(r, form, id, 1)

NextAuth ==
    \/ \E r \in Registrars : RegisterUser(r)
    \/ \E login \in Logins, secret \in Secrets : Authenticate(login, secret)

SpecAuth == Init /\ [][NextAuth]_vars

\* Tokens: logins of the registered users under the secret "s", validations
\* of the issued token and of its alterations with that secret and with
\* another, a clock that passes the expiry.
TokenLogins == {[username |-> f.username, password |-> f.password] : f \in AuthForms}

ValidatePresented(secret) ==
    /\ authRes.token # <<>>
    /\ \E token \in Presented(authRes.token[1]) : ValidateCall(token, secret)

NextToken ==
    \/ \E r \in Registrars : RegisterUser(r)
    \/ \E login \in TokenLogins : Authenticate(login, "s")
    \/ \E secret \in Secrets : ValidatePresented(secret)
    \/ Tick

SpecToken == Init /\ [][NextToken]_vars

\* Creates, reads and burns on a database that works.
NextVisible ==
    \/ \E c \in Creators : Create(c)
    \/ \E c \in Creators : CreateInsert(c, TRUE)
    \/ \E r \in Readers, id \in Ids : HandlePasteRead(r, id, "", TRUE)
    \/ \E r \in Readers : HandlePasteBurn(r, TRUE)

SpecVisible == Init /\ [][NextVisible]_vars

\* Every operation of the service on one table: creates of burn-after-read
\* and of plain pastes over OwnedIds, one read and its burn, List calls and
\* DELETE requests, with a database that works.
CreateFrame(c) ==
    /\ cpc[c] = "idle"
    /\ \E form \in BurnForms, id \in OwnedIds : CreateBegin(c, form, id, 1, TRUE)

NextFrame ==
    \/ \E c \in Creators : CreateFrame(c)
    \/ \E c \in Creators : CreateInsert(c, TRUE)
    \/ \E id \in OwnedIds : HandlePasteRead(1, id, "", TRUE)
    \/ HandlePasteBurn(1, TRUE)
    \/ ListCall(0, TRUE)
    \/ \E id \in OwnedIds : HandleDelete(id, TRUE)

SpecFrame == Init /\ [][NextFrame]_vars

\* Create, List and Delete calls on a database that may fail.
NextFailure ==
    \/ \E c \in Creators : CreatePlain(c)
    \/ \E c \in Creators, dbOk \in BOOLEAN : CreateInsert(c, dbOk)
    \/ \E dbOk \in BOOLEAN : ListCall(0, dbOk)
    \/ \E id \in OwnedIds, dbOk \in BOOLEAN : DeleteCall(id, dbOk)

SpecFailure == Init /\ [][NextFailure]_vars

\* POST /paste requests and Create calls by clients of the service on one
\* table: request 1 with every Content-Type and every body of up to
\* MaxBodyValues values, call 2 with a good or a bad expiration, with a
\* password whose hashing may fail, on a database that may fail.
MaxBodyValues == 2
Bodies == UNION {[1 .. n -> {JsonValue(k) : k \in JsonKinds}] : n \in 0 .. MaxBodyValues}
CreateForms == {Form("q", expr, FALSE, pw, 0) : expr \in {NeverExpr, <<"x">>},
                                                pw \in {"", "a"}}

CreateCall(c) ==
    /\ cpc[c] = "idle"
    /\ ~creq[c].sent
    /\ \E form \in CreateForms, id \in OwnedIds, hashOk \in BOOLEAN :
           CreateBegin(c, form, id, 1, hashOk)

NextCreate ==
    \/ \E contentType \in ContentTypes, body \in Bodies :
           HandleCreateDecode(1, contentType, body)
    \/ \E id \in OwnedIds : HandleCreateCall(1, id)
    \/ CreateCall(2)
    \/ \E c \in Creators, dbOk \in BOOLEAN : CreateInsert(c, dbOk)

SpecCreate == Init /\ [][NextCreate]_vars

\* ================================================================ claims

DuplicateKey == "UNIQUE constraint failed: pastes.id"

\* A read r has written a 200 response that carries a paste.
ReturnedPaste(r) == resp[r].status = 200 /\ resp[r].paste # <<>>

\* ---------------------------------------------------------------------
\* C1: for a paste created with deleteAfterRead=true the first read returns
\* the paste (the handler is then at its burn, with the paste in a 200
\* response), and a read that fetches the id after that burn has completed,
\* the id not having been stored again, yields NotFound (404).
C1_BurnThenNotFound ==
    \A r \in Readers :
        /\ rpc[r] = "burn" => (ReturnedPaste(r) /\ resp[r].paste[1].deleteAfterRead)
        /\ (rpc[r] = "done" /\ resp[r].afterBurn) => resp[r].status = 404

\* ---------------------------------------------------------------------
\* C2 as stated: at most one read returns a given burn-after-read paste.
C2_AtMostOneRead == \A id \in Ids : burnReads[id] <= 1

\* C2 as amended: a read returns a burn-after-read paste only if it fetches it
\* before a burn delete of that id has succeeded; no read that fetches after
\* a successful burn delete (the id not having been stored again) returns a
\* paste.  Reads that fetch before the delete may all return the paste.
C2_NoReadAfterBurn ==
    \A r \in Readers : (rpc[r] # "idle" /\ resp[r].afterBurn) => resp[r].paste = <<>>

\* Two reads of one burn-after-read paste: the first returned it and burnt it,
\* the second fetched after that burn and returned no paste.
C2_Witness ==
    \E r1, r2 \in Readers :
        /\ r1 # r2
        /\ rpc[r1] = "done" /\ ReturnedPaste(r1) /\ resp[r1].paste[1].deleteAfterRead
        /\ resp[r1].deleteErr = "none"
        /\ rpc[r2] = "done" /\ req[r2].id = req[r1].id
        /\ resp[r2].afterBurn /\ resp[r2].paste = <<>>

\* ---------------------------------------------------------------------
\* C8: the duplicate-identifier failure of the insert is never the result a
\* Create call returns.
C8_DuplicateNeverReturned ==
    \A c \in Creators : cpc[c] = "done" => cres[c].err # DuplicateKey

\* ---------------------------------------------------------------------
\* C9: when N concurrent Create calls, each with a valid form and a working
\* database, have all returned and nothing has been read or deleted, the
\* store holds N rows with pairwise distinct ids, each equal field by field
\* to the paste returned to its creator.
C9_AllCreatesStored ==
    ( /\ \A c \in Creators : cpc[c] = "done" /\ cres[c].err \in {"none", DuplicateKey}
      /\ \A r \in Readers : rpc[r] = "idle"
      /\ delResp = 0 )
    => /\ Cardinality(DOMAIN store) = NumCreators
       /\ \A c \in Creators :
              /\ cres[c].paste # <<>>
              /\ cres[c].paste[1].id \in DOMAIN store
              /\ PasteOf(store[cres[c].paste[1].id]) = cres[c].paste[1]
       /\ \A c1, c2 \in Creators :
              c1 # c2 => cres[c1].paste[1].id # cres[c2].paste[1].id

\* ---------------------------------------------------------------------
\* C10: the burn delete of a read is issued only once the paste has been
\* written to the caller in a 200 response, and the step that performs the
\* delete, failing or not, leaves what the caller sees unchanged: every row
\* that disappears is removed by a handler that had already responded.
C10_BurnAfterResponse ==
    [][ /\ \A r \in Readers :
               (rpc[r] = "burn" /\ rpc'[r] = "done")
               => /\ ReturnedPaste(r)
                  /\ Visible(resp'[r]) = Visible(resp[r])
        /\ \A id \in (DOMAIN store) \ (DOMAIN store') :
               \E r \in Readers :
                   /\ rpc[r] = "burn" /\ rpc'[r] = "done"
                   /\ ReturnedPaste(r) /\ resp[r].paste[1].id = id ]_vars

\* A read of a burn-after-read paste whose delete failed: the caller holds
\* the paste in a 200 response.
C10_Witness ==
    \E r \in Readers :
        /\ rpc[r] = "done" /\ ReturnedPaste(r)
        /\ resp[r].paste[1].deleteAfterRead
        /\ resp[r].deleteErr # "none"

\* ---------------------------------------------------------------------
\* bcrypt.CompareHashAndPassword, as a predicate.
PasswordMatches(hash, pw) == hash.pw = pw

\* C3: a fetch performed when the clock is past the expires of the stored
\* paste (expires not being the zero time) does not return the paste.
C3_ExpiredIsNotFound ==
    \A r \in Readers :
        ReturnedPaste(r)
        => \/ resp[r].paste[1].expires = ZeroTime
           \/ resp[r].at <= resp[r].paste[1].expires

\* C4: a read returns a paste created with a password only if the password
\* supplied matches the one given at creation (a 401 otherwise); a paste
\* created without a password is returned to a read that supplies none.
C4_PasswordGuard ==
    \A r \in Readers :
        ReturnedPaste(r) /\ resp[r].paste[1].password # NoHash
        => PasswordMatches(resp[r].paste[1].password, req[r].pw)

\* C5: every stored paste has expires equal to the zero time or strictly
\* later than created, and never both.
C5_ExpiresInvariant ==
    \A id \in DOMAIN store :
        (store[id].expires = ZeroTime) # (store[id].expires > store[id].created)

\* ---------------------------------------------------------------------
\* The grammar of the claims: one or more decimal digits and one unit.
UnitChars == {"m", "h", "d", "w", "M", "y"}
IsDurationExpr(e) ==
    /\ Len(e) >= 2
    /\ e[Len(e)] \in UnitChars
    /\ \A i \in 1 .. (Len(e) - 1) : e[i] \in DigitChars

IsFormatError(err) == err \in {"wrong duration format", "unknown duration format"}

\* C6: for every expression of the grammar and every creation instant Create
\* computes an expiration strictly greater than the creation instant, and
\* for "never" it computes the zero time.
C6_ExpiresAfterCreated ==
    \A c \in Creators :
        cpc[c] \in {"insert", "done"}
        => /\ (IsDurationExpr(cform[c].expires) /\ cres[c].paste # <<>>)
              => cres[c].paste[1].expires > cres[c].paste[1].created
           /\ (cform[c].expires = NeverExpr /\ cres[c].paste # <<>>)
              => cres[c].paste[1].expires = ZeroTime

\* C7: Create fails with a format error for every expression that is neither
\* "never" nor of the grammar.
C7_InvalidExprRejected ==
    \A c \in Creators :
        ( /\ cpc[c] \in {"insert", "done"}
          /\ cform[c].expires # NeverExpr
          /\ ~IsDurationExpr(cform[c].expires) )
        => IsFormatError(cres[c].err)

\* ---------------------------------------------------------------------
\* What the client sees of a not-found response.
NotFoundResponse == [status |-> 404, paste |-> <<>>, text |-> "paste not found"]

\* C11: a fetch whose id parameter does not decode and a fetch of a decoded
\* id that the store does not hold write the same response, the 404 "paste
\* not found", whatever the store holds.
C11_SameNotFound ==
    [][ \A r \in Readers :
            ( /\ rpc[r] = "idle" /\ rpc'[r] # "idle"
              /\ (req'[r].id = NoId \/ req'[r].id \notin DOMAIN store) )
            => Visible(resp'[r]) = NotFoundResponse ]_vars

\* ---------------------------------------------------------------------
\* The owner a stored row was created with: none, or the uid.
OwnerOf(row) == row.user_id

\* C12: a List call whose query ran returns exactly the pastes of the table
\* whose owner is absent, for uid 0, and exactly those whose owner is uid
\* otherwise; no List call at all returns a paste of another owner; and the
\* insert of a Create with UserID 0 stores the row with its owner absent, not
\* as owner 0, that of a Create with UserID u # 0 with owner u.
C12_ListByOwner ==
    [][ /\ listRes'.called =>
              LET mine == {i \in DOMAIN listRes'.seen :
                             OwnerOf(listRes'.seen[i]) =
                                 (IF listRes'.uid = 0 THEN <<>> ELSE <<listRes'.uid>>)}
              IN /\ ~listRes'.failed
                      => listRes'.pastes = {PasteOf(listRes'.seen[i]) : i \in mine}
                 /\ \A p \in listRes'.pastes :
                        p.id \in mine /\ p = PasteOf(listRes'.seen[p.id])
        /\ \A c \in Creators :
              (cpc[c] = "insert" /\ cpc'[c] = "done" /\ cres'[c].err = "none")
              => LET id == cres'[c].paste[1].id
                 IN /\ id \in DOMAIN store'
                    /\ OwnerOf(store'[id]) =
                           (IF cform[c].userID = 0 THEN <<>> ELSE <<cform[c].userID>>)
                    /\ OwnerOf(store'[id]) # <<0>> ]_vars

\* A List answered from a table that holds pastes of two owners: it returned
\* a paste and left one out.
C12_Witness ==
    /\ listRes.called /\ ~listRes.failed
    /\ listRes.pastes # {}
    /\ Cardinality(listRes.pastes) < Cardinality(DOMAIN listRes.seen)

\* ---------------------------------------------------------------------
\* C13: a Delete call of an id the table does not hold returns no error and
\* leaves the table as it was; and a second Delete of an id, on the table the
\* first one left, leaves that table and returns what the first returned.
C13_DeleteIdempotent ==
    /\ \A k \in 1 .. Len(delLog) :
           (delLog[k].id \notin DOMAIN delLog[k].before /\ ~delLog[k].failed)
           => (delLog[k].err = "none" /\ delLog[k].after = delLog[k].before)
    /\ ( /\ Len(delLog) = 2
         /\ delLog[1].id = delLog[2].id
         /\ ~delLog[1].failed /\ ~delLog[2].failed
         /\ delLog[2].before = delLog[1].after )
       => (delLog[2].after = delLog[1].after /\ delLog[2].err = delLog[1].err)

\* Two Delete calls of one id in a row: the first removed the row, the second
\* found none.
C13_Witness ==
    /\ Len(delLog) = 2
    /\ delLog[1].id = delLog[2].id
    /\ ~delLog[1].failed /\ ~delLog[2].failed
    /\ delLog[1].id \in DOMAIN delLog[1].before
    /\ delLog[2].before = delLog[1].after
    /\ delLog[2].id \notin DOMAIN delLog[2].before

\* ---------------------------------------------------------------------
\* C14: a DELETE /paste/{id} that removes no row, because the table does not
\* hold the id, answers 404, and one that answers 200 has removed the row.
\* Stated of every step that writes a new status of a DELETE response.
C14_DeleteNotFound ==
    [][ delResp' # delResp
        => IF DOMAIN store' = DOMAIN store THEN delResp' = 404
           ELSE /\ delResp' = 200
                /\ DOMAIN store' \subseteq DOMAIN store
                /\ Cardinality(DOMAIN store') = Cardinality(DOMAIN store) - 1 ]_vars

C16_Validate ==
    valRes.called =>
        LET tok == valRes.token[1]
            orig == valRes.issued[1]
            genuine == tok = orig /\ valRes.secret = valRes.issuedWith
        IN /\ (genuine /\ valRes.at <= orig.exp)
              => /\ valRes.err = "none"
                 /\ valRes.claims = <<[uid |-> orig.uid, username |-> orig.username]>>
           /\ ~genuine
              => (valRes.err = "InvalidSignature" /\ valRes.claims = <<>>)
           /\ (genuine /\ valRes.at > orig.exp)
              => (valRes.err = "Expired" /\ valRes.claims = <<>>)

\* A token whose expiry was moved forward, validated with the secret of the
\* issue after the expiry of the issued token and before its own: refused
\* for its signature.
C16_Witness ==
    /\ valRes.called
    /\ valRes.secret = valRes.issuedWith
    /\ valRes.token[1].exp > valRes.issued[1].exp
    /\ valRes.at > valRes.issued[1].exp /\ valRes.at <= valRes.token[1].exp
    /\ valRes.err = "InvalidSignature"

\* ---------------------------------------------------------------------
\* C17: an Authenticate call returns a token and no error exactly when a
\* registration that succeeded before it gave that username and that
\* password; otherwise it returns an error and no token.
C17_Authenticate ==
    authRes.called =>
        /\ (authRes.err = "none" /\ authRes.token # <<>>) <=> authRes.known
        /\ authRes.err # "none" <=> authRes.token = <<>>

\* A login with the username of a registered user and another password:
\* refused, no token.
C17_Witness ==
    /\ authRes.called
    /\ \E r \in Registrars :
           /\ regRes[r].state = "ok"
           /\ regRes[r].form.username = authRes.login.username
           /\ regRes[r].form.password # authRes.login.password
    /\ authRes.err = "wrong password" /\ authRes.token = <<>>

\* ---------------------------------------------------------------------
\* A step in which read r fetches, one in which it burns, one in which
\* Create call c returns.
Fetches(r) == rpc[r] = "idle" /\ rpc'[r] # "idle"
Burns(r) == rpc[r] = "burn" /\ rpc'[r] = "done"
Returns(c) == cpc[c] = "insert" /\ cpc'[c] = "done"

\* C18: when Create returns a paste its row is in the table, field by field
\* what Create returns; the row stays until a delete of its id, so that a
\* fetch of an id whose row is in the table finds it; and a fetch returns
\* only a paste that a Create call has returned.
C18_CreateBeforeFetch ==
    [][ /\ \A c \in Creators :
              (Returns(c) /\ cres'[c].err = "none")
              => /\ cres'[c].paste[1].id \in DOMAIN store'
                 /\ PasteOf(store'[cres'[c].paste[1].id]) = cres'[c].paste[1]
        /\ \A i \in (DOMAIN store) \ (DOMAIN store') :
              \E r \in Readers : Burns(r) /\ resp[r].paste[1].id = i
        /\ \A r \in Readers :
              Fetches(r)
              => /\ req'[r].id \in DOMAIN store
                    => /\ resp'[r].status = 200
                       /\ resp'[r].paste = <<PasteOf(store[req'[r].id])>>
                 /\ resp'[r].paste # <<>>
                    => \E c \in Creators :
                           /\ cpc[c] = "done" /\ cres[c].err = "none"
                           /\ cres[c].paste = resp'[r].paste ]_vars

\* A read has returned the paste a Create call returned before it.
C18_Witness ==
    \E r \in Readers, c \in Creators :
        /\ ReturnedPaste(r)
        /\ cpc[c] = "done" /\ cres[c].err = "none"
        /\ cres[c].paste = resp[r].paste

\* ---------------------------------------------------------------------
\* C19: a storage failure is returned to the caller as an error: a List call
\* whose query failed reports an error, not a list; a Delete call whose
\* statement failed returns an error; a Create call whose insert stored no
\* row returns an error, not a paste.
C19_FailureSurfaced ==
    [][ /\ (listRes'.called /\ listRes'.failed) => listRes'.err # "none"
        /\ \A k \in 1 .. Len(delLog') : delLog'[k].failed => delLog'[k].err # "none"
        /\ \A c \in Creators :
              (Returns(c) /\ cres'[c].err = "none")
              => /\ cres'[c].paste # <<>>
                 /\ cres'[c].paste[1].id \in DOMAIN store' ]_vars

\* ---------------------------------------------------------------------
\* C20: no step changes a field of a row that stays in the table; a fetch
\* and a List call leave the table as it was; a Create call that returns
\* removes no row and adds at most the row of its own id; a burn removes at
\* most the row of the burn-after-read paste it has returned; and a step
\* removes at most one row.
C20_Immutable ==
    [][ /\ \A i \in (DOMAIN store) \cap (DOMAIN store') : store'[i] = store[i]
        /\ \A r \in Readers : Fetches(r) => store' = store
        /\ listRes' # listRes => store' = store
        /\ \A c \in Creators :
              Returns(c)
              => /\ DOMAIN store \subseteq DOMAIN store'
                 /\ \A i \in (DOMAIN store') \ (DOMAIN store) :
                        cres[c].paste # <<>> /\ cres[c].paste[1].id = i
        /\ \A r \in Readers :
              Burns(r)
              => /\ resp[r].paste[1].deleteAfterRead
                 /\ (DOMAIN store) \ (DOMAIN store') \subseteq {resp[r].paste[1].id}
        /\ Cardinality((DOMAIN store) \ (DOMAIN store')) <= 1 ]_vars

\* A paste without burn-after-read has been read and its row is still in the
\* table, as returned, next to another row, after a List call and a DELETE.
C20_Witness ==
    \E r \in Readers :
        /\ rpc[r] = "done" /\ ReturnedPaste(r)
        /\ ~resp[r].paste[1].deleteAfterRead
        /\ resp[r].paste[1].id \in DOMAIN store
        /\ PasteOf(store[resp[r].paste[1].id]) = resp[r].paste[1]
        /\ Cardinality(DOMAIN store) > 1
        /\ listRes.called
        /\ delResp = 200

\* ---------------------------------------------------------------------
\* What a magnitude is multiplied by for the units whose product is a machine
\* integer: the duration of a minute, of an hour, the days of a week.
UnitFactor(unit) == IF unit = "m" THEN Minute ELSE IF unit = "h" THEN Hour ELSE 7

\* C21: for every expression of the grammar in minutes, hours or weeks whose
\* magnitude times its unit is not representable in the machine integer,
\* Create fails with a format error and stores no paste.
C21_OverflowRejected ==
    \A c \in Creators :
        LET e == cform[c].expires
        IN ( /\ cpc[c] \in {"insert", "done"}
             /\ IsDurationExpr(e)
             /\ e[Len(e)] \in {"m", "h", "w"}
             /\ DecimalValue(SubSeq(e, 1, Len(e) - 1)) * UnitFactor(e[Len(e)]) > MaxInt )
           => (IsFormatError(cres[c].err) /\ cres[c].paste = <<>>)

\* ---------------------------------------------------------------------
\* C22: the burn that follows a read of a burn-after-read paste removes that
\* paste alone: every row the burn step of read r takes out of the table
\* is the paste r returned, never a paste stored later under the same id.
C22_BurnRemovesOnlyRead ==
    [][ \A r \in Readers :
          Burns(r)
          => \A i \in (DOMAIN store) \ (DOMAIN store') :
                 <<PasteOf(store[i])>> = resp[r].paste ]_vars

====
